---- MODULE Spec2Model ----
(***************************************************************************)
(* Model of the context-aware spell checker (spell_checker.py): the        *)
(* lexicon store MockDatabase and the pipeline of ContextAwareSpellChecker *)
(* (detect_errors, _check_homophones, _get_context_window,                 *)
(* _analyze_homophone_context, correct_text, _bert_correct_spelling,       *)
(* _calculate_confidence).  Texts and words are strings; the collaborators *)
(* (spaCy tokenizer, enchant dictionary, fill-mask pipeline) are modelled  *)
(* by their answers, which the actions choose among.                       *)
(***************************************************************************)
EXTENDS Integers, Sequences, FiniteSets, TLC

VARIABLES misspellings, homophones, sqlite_sequence, seedings, call, other,
          webapp, config_manager, config_file

vars == <<misspellings, homophones, sqlite_sequence, seedings, call, other,
          webapp, config_manager, config_file>>

(***************************************************************************)
(* Bounds of the model.                                                    *)
(***************************************************************************)
\* number of times populate_sample_data runs on the same db_path
MaxSeedings == 3
\* length of the ranked list the fill-mask pipeline answers with
MaxPreds == 2
\* length of the corrections list handed to _calculate_confidence directly
MaxCorrections == 3
\* number of times the test sentence is repeated in the large text
MaxRepeats == 3

(***************************************************************************)
(* Python values.                                                          *)
(***************************************************************************)
\* Optional[str]: None is the empty tuple, a value v is <<v>>
None == <<>>

Some(v) == <<v>>

(***************************************************************************)
(* Python str operations, on strings as sequences of characters.           *)
(***************************************************************************)
UpperLetters == "ABCDEFGHIJKLMNOPQRSTUVWXYZ"

LowerLetters == "abcdefghijklmnopqrstuvwxyz"

CharAt(s, i) == SubSeq(s, i, i)

IndexIn(alphabet, c) ==
  IF \E k \in 1..Len(alphabet) : CharAt(alphabet, k) = c
  THEN CHOOSE k \in 1..Len(alphabet) : CharAt(alphabet, k) = c
  ELSE 0

IsLetter(c) == IndexIn(UpperLetters, c) > 0 \/ IndexIn(LowerLetters, c) > 0

LowerChar(c) ==
  IF IndexIn(UpperLetters, c) > 0 THEN CharAt(LowerLetters, IndexIn(UpperLetters, c)) ELSE c

UpperChar(c) ==
  IF IndexIn(LowerLetters, c) > 0 THEN CharAt(UpperLetters, IndexIn(LowerLetters, c)) ELSE c

RECURSIVE Lower(_)
\* str.lower()
Lower(s) == IF Len(s) = 0 THEN s ELSE LowerChar(CharAt(s, 1)) \o Lower(Tail(s))

\* str.isalpha(), which spaCy's token.is_alpha reports
IsAlpha(s) == Len(s) > 0 /\ \A k \in 1..Len(s) : IsLetter(CharAt(s, k))

\* sub in s
Contains(sub, s) ==
  \E k \in 1..(Len(s) - Len(sub) + 1) : SubSeq(s, k, k + Len(sub) - 1) = sub

RECURSIVE ReplaceFrom(_, _, _, _)
ReplaceFrom(s, old, new, k) ==
  IF k + Len(old) - 1 > Len(s) THEN SubSeq(s, k, Len(s))
  ELSE IF SubSeq(s, k, k + Len(old) - 1) = old
       THEN new \o ReplaceFrom(s, old, new, k + Len(old))
       ELSE CharAt(s, k) \o ReplaceFrom(s, old, new, k + 1)

\* s.replace(old, new) for a non-empty old: every non-overlapping occurrence,
\* left to right
PyReplace(s, old, new) == ReplaceFrom(s, old, new, 1)

RECURSIVE SplitFrom(_, _, _, _)
SplitFrom(s, sep, k, start) ==
  IF k > Len(s) THEN <<SubSeq(s, start, Len(s))>>
  ELSE IF CharAt(s, k) = sep
       THEN <<SubSeq(s, start, k - 1)>> \o SplitFrom(s, sep, k + 1, k + 1)
       ELSE SplitFrom(s, sep, k + 1, start)

\* s.split(sep) for a one-character sep
PySplit(s, sep) == SplitFrom(s, sep, 1, 1)

RECURSIVE JoinWith(_, _)
\* sep.join(parts)
JoinWith(parts, sep) ==
  IF Len(parts) = 0 THEN ""
  ELSE IF Len(parts) = 1 THEN parts[1]
  ELSE parts[1] \o sep \o JoinWith(Tail(parts), sep)

\* x in list
InList(x, list) == \E k \in 1..Len(list) : list[k] = x

\* list.index(x) as a 1-based index, 0 for ValueError
ListIndex(list, x) ==
  IF InList(x, list) THEN CHOOSE k \in 1..Len(list) : list[k] = x /\ \A m \in 1..(k - 1) : list[m] # x
  ELSE 0

Max(a, b) == IF a > b THEN a ELSE b

Min(a, b) == IF a < b THEN a ELSE b

(***************************************************************************)
(* spaCy: doc = self.nlp(text).  Whitespace separates chunks; a chunk is a *)
(* maximal run of letters and apostrophes, or one punctuation character.   *)
(* The English tokenizer splits a chunk at its apostrophe when the chunk   *)
(* is one of its contraction exceptions (lower-case or title-case pronoun  *)
(* + "'re") or ends with the suffix "'s" / "'S"; any other chunk, such as  *)
(* "THEY'RE", is one token.  idx is the 0-based character offset of the    *)
(* token in the text.                                                      *)
(***************************************************************************)
RECURSIVE LetterRunEnd(_, _)
\* the last position of the run of letters and apostrophes that covers
\* position k - 1
LetterRunEnd(s, k) ==
  IF k <= Len(s) /\ (IsLetter(CharAt(s, k)) \/ CharAt(s, k) = "'")
  THEN LetterRunEnd(s, k + 1)
  ELSE k - 1

\* the contractions the tokenizer exceptions list
ContractionExceptions == {"they're", "They're", "you're", "You're", "we're", "We're"}

\* the length of the first token of a chunk
FirstTokenLen(chunk) ==
  IF chunk \in ContractionExceptions
  THEN (CHOOSE k \in 1..Len(chunk) : CharAt(chunk, k) = "'") - 1
  ELSE IF Len(chunk) > 2 /\ SubSeq(chunk, Len(chunk) - 1, Len(chunk)) \in {"'s", "'S"}
  THEN Len(chunk) - 2
  ELSE Len(chunk)

RECURSIVE TokensFrom(_, _)
TokensFrom(s, k) ==
  IF k > Len(s) THEN <<>>
  ELSE IF CharAt(s, k) = " " THEN TokensFrom(s, k + 1)
  ELSE LET chunkEnd == IF IsLetter(CharAt(s, k)) \/ CharAt(s, k) = "'"
                       THEN LetterRunEnd(s, k + 1)
                       ELSE k
           last == k + FirstTokenLen(SubSeq(s, k, chunkEnd)) - 1
       IN <<[text |-> SubSeq(s, k, last), idx |-> k - 1]>> \o TokensFrom(s, last + 1)

nlp(text) == TokensFrom(text, 1)

(***************************************************************************)
(* MockDatabase: the SQLite tables misspellings and homophones.  Both have *)
(* an INTEGER PRIMARY KEY AUTOINCREMENT id and no other uniqueness         *)
(* constraint; sqlite_sequence holds the largest id each table ever used.  *)
(***************************************************************************)
SampleMisspellings ==
  << [incorrect_word |-> "recieve", correct_word |-> "receive", frequency |-> 5],
     [incorrect_word |-> "seperate", correct_word |-> "separate", frequency |-> 3],
     [incorrect_word |-> "definately", correct_word |-> "definitely", frequency |-> 4],
     [incorrect_word |-> "occured", correct_word |-> "occurred", frequency |-> 2],
     [incorrect_word |-> "accomodate", correct_word |-> "accommodate", frequency |-> 3] >>

SampleHomophones ==
  << [word_group |-> "there/their/they're", words |-> "there,their,they're",
      context_rules |-> "location,possession,contraction"],
     [word_group |-> "to/too/two", words |-> "to,too,two",
      context_rules |-> "preposition,adverb,number"],
     [word_group |-> "your/you're", words |-> "your,you're",
      context_rules |-> "possession,contraction"],
     [word_group |-> "its/it's", words |-> "its,it's",
      context_rules |-> "possession,contraction"] >>

\* the id AUTOINCREMENT gives the next row: one more than any id ever used
NextRowId(rows, seq) ==
  LET used == {rows[k].id : k \in DOMAIN rows} \cup {seq}
  IN 1 + CHOOSE m \in used : \A u \in used : u <= m

\* INSERT OR IGNORE of one row without an explicit id: the row is skipped only
\* when it violates a constraint of the table, and the primary key is the only
\* uniqueness constraint the schema declares
InsertOrIgnore(tbl, row) ==
  LET id == NextRowId(tbl.rows, tbl.seq)
      conflict == \E k \in DOMAIN tbl.rows : tbl.rows[k].id = id
  IN IF conflict THEN tbl
     ELSE [rows |-> Append(tbl.rows, [id |-> id, data |-> row]), seq |-> id]

RECURSIVE ExecuteMany(_, _)
\* cursor.executemany('INSERT OR IGNORE ...', rows)
ExecuteMany(tbl, rows) ==
  IF Len(rows) = 0 THEN tbl ELSE ExecuteMany(InsertOrIgnore(tbl, Head(rows)), Tail(rows))

EmptyTable == [rows |-> <<>>, seq |-> 0]

\* SELECT incorrect_word, correct_word, frequency FROM misspellings
get_misspellings(rows) ==
  [k \in 1..Len(rows) |->
     <<rows[k].data.incorrect_word, rows[k].data.correct_word, rows[k].data.frequency>>]

\* SELECT word_group, words, context_rules, examples FROM homophones
get_homophones(rows) ==
  [k \in 1..Len(rows) |->
     [group |-> rows[k].data.word_group,
      words |-> PySplit(rows[k].data.words, ","),
      rules |-> rows[k].data.context_rules]]

(***************************************************************************)
(* The collaborators' data: the words the enchant en_US dictionary         *)
(* accepts, its suggestions, and the tokens the fill-mask model ranks.     *)
(***************************************************************************)
EnchantWords ==
  {"a", "book", "box", "buy", "cat", "friend", "going", "groceries", "her", "i",
   "is", "lighter", "meat", "receive", "she", "store", "the", "their", "there",
   "to", "went"}

\* enchant_dict.check(word)
enchant_check(word) == word \in EnchantWords

\* enchant_dict.suggest(word)
enchant_suggest(word) ==
  CASE word = "teh" -> <<"the", "tea">>
    [] word = "hte" -> <<"the", "hate">>
    [] word = "recieve" -> <<"receive">>
    [] OTHER -> <<>>

\* the token the model ranks for the masked place of a flagged word
MlmCandidate(word) ==
  CASE Lower(word) = "teh" -> "the"
    [] Lower(word) = "hte" -> "the"
    [] Lower(word) = "recieve" -> "receive"
    [] OTHER -> "like"

\* the same word in the other letter case
CaseVariant(word) ==
  IF Len(word) = 0 THEN word
  ELSE IF word = Lower(word) THEN UpperChar(CharAt(word, 1)) \o Tail(word)
  ELSE Lower(word)

MlmTokens(word) == {MlmCandidate(word), word, CaseVariant(word)}

\* the outcomes of fill_mask_pipeline(masked_text, top_k=5): an exception or
\* a ranked list of predictions
MlmAnswers(word) ==
  {[raised |-> TRUE, value |-> <<>>]} \cup
  {[raised |-> FALSE, value |-> [k \in DOMAIN l |-> [token_str |-> l[k]]]] :
     l \in UNION {[1..n -> MlmTokens(word)] : n \in 0..MaxPreds}}

\* the texts handed to the checker
Texts ==
  {"",
   "There is a book.",
   "She went to meat her friend.",
   "Their going to the store.",
   "Their going to the store to buy there groceries.",
   "teh cat teh",
   "the cat the",
   "hte lighter",
   "I recieve teh box.",
   "there is a cat a book there",
   "THEY'RE going there."}

\* the words handed to _check_homophones directly
ProbeWords == {"they're", "there", "Their", "too"}

\* the kinds of corrections handed to _calculate_confidence
Kinds == {"spelling", "homophone", "grammar"}

CorrectionLists ==
  UNION {[1..n -> {[type |-> k] : k \in Kinds}] : n \in 0..MaxCorrections}

(***************************************************************************)
(* ContextAwareSpellChecker: the pure parts of the pipeline.               *)
(***************************************************************************)
\* the keyword lists of _analyze_homophone_context
ThereKeywords == <<"is", "are", "was", "were">>

TheirKeywords == <<"book", "car", "house", "name">>

TheyreKeywords == <<"coming", "going", "here", "there">>

\* any(k in context_lower for k in keywords)
AnyKeywordIn(keywords, context_lower) ==
  \E k \in 1..Len(keywords) : Contains(keywords[k], context_lower)

\* analyze_homophone_context testing the keywords of every member in turn,
\* whatever the word is, and returning the first member whose keywords occur
analyze_homophone_context_any_member(word, context, group) ==
  LET context_lower == Lower(context)
  IN IF Lower(word) \notin {"there", "their", "they're"} THEN None
     ELSE IF AnyKeywordIn(ThereKeywords, context_lower) THEN Some("there")
     ELSE IF AnyKeywordIn(TheirKeywords, context_lower) THEN Some("their")
     ELSE IF AnyKeywordIn(TheyreKeywords, context_lower) THEN Some("they're")
     ELSE None

\* _analyze_homophone_context(word, context, group): only the branch of the
\* word itself is looked at; the group is not read
analyze_homophone_context(word, context, group) ==
  LET context_lower == Lower(context)
  IN IF Lower(word) = "there"
     THEN (IF AnyKeywordIn(ThereKeywords, context_lower) THEN Some("there") ELSE None)
     ELSE IF Lower(word) = "their"
     THEN (IF AnyKeywordIn(TheirKeywords, context_lower) THEN Some("their") ELSE None)
     ELSE IF Lower(word) = "they're"
     THEN (IF AnyKeywordIn(TheyreKeywords, context_lower) THEN Some("they're") ELSE None)
     ELSE None

\* the default window_size of _get_context_window
DefaultWindowSize == 3

\* _get_context_window slicing words[start:] with no end
get_context_window_to_end(doc, target_word, window_size) ==
  LET words == [k \in 1..Len(doc) |-> doc[k].text]
      at == ListIndex(words, target_word)
      idx == at - 1
      start == Max(0, idx - window_size)
  IN IF at = 0 THEN "" ELSE JoinWith(SubSeq(words, start + 1, Len(words)), " ")

\* _get_context_window locating the word with a search that answers -1
\* instead of raising ValueError
get_context_window_find(doc, target_word, window_size) ==
  LET words == [k \in 1..Len(doc) |-> doc[k].text]
      at == ListIndex(words, target_word)
      idx == at - 1
      start == Max(0, idx - window_size)
      end == Min(Len(words), idx + window_size + 1)
  IN JoinWith(SubSeq(words, start + 1, end), " ")

\* _get_context_window(doc, target_word, window_size): the window around the
\* first token whose text is target_word, "" when there is none
get_context_window(doc, target_word, window_size) ==
  LET words == [k \in 1..Len(doc) |-> doc[k].text]
      at == ListIndex(words, target_word)
      idx == at - 1
      start == Max(0, idx - window_size)
      end == Min(Len(words), idx + window_size + 1)
  IN IF at = 0 THEN "" ELSE JoinWith(SubSeq(words, start + 1, end), " ")

\* next(token.idx for token in doc if token.text == word)
FirstTokenIdx(doc, word) ==
  doc[ListIndex([k \in 1..Len(doc) |-> doc[k].text], word)].idx

RECURSIVE CheckGroups(_, _, _, _, _)
\* the loop of _check_homophones from group g on; calls is the list of the
\* resolver calls made so far
CheckGroups(word, doc, groups, g, calls) ==
  IF g > Len(groups) THEN [ret |-> None, calls |-> calls]
  ELSE IF ~InList(Lower(word), groups[g].words)
  THEN CheckGroups(word, doc, groups, g + 1, calls)
  ELSE LET context == get_context_window(doc, word, DefaultWindowSize)
           correct_word == analyze_homophone_context(word, context, groups[g])
           made == Append(calls, [word |-> word, context |-> context,
                                  group |-> groups[g], result |-> correct_word])
       IN IF correct_word # None /\ Lower(correct_word[1]) # Lower(word)
          THEN [ret |-> Some([word |-> word,
                              position |-> FirstTokenIdx(doc, word),
                              type |-> "homophone",
                              suggestions |-> <<correct_word[1]>>,
                              confidence |-> [tenths |-> 8, count |-> 1]]),
                calls |-> made]
          ELSE CheckGroups(word, doc, groups, g + 1, made)

\* _check_homophones(word, doc): ret is the error or None, calls the resolver
\* calls it made
check_homophones(word, doc, groups) == CheckGroups(word, doc, groups, 1, <<>>)

\* detect_token reporting the place of the token in the document (token.i)
\* instead of its character offset
detect_token_token_index(errors, token, doc, groups) ==
  IF ~IsAlpha(token.text) THEN [errors |-> errors, calls |-> <<>>]
  ELSE LET spelled ==
             IF ~enchant_check(Lower(token.text))
             THEN Append(errors, [word |-> token.text,
                                  position |-> Cardinality({k \in DOMAIN doc :
                                                              doc[k].idx < token.idx}),
                                  type |-> "spelling",
                                  suggestions |-> enchant_suggest(Lower(token.text))])
             ELSE errors
           homophone_error == check_homophones(token.text, doc, groups)
       IN [errors |-> IF homophone_error.ret # None
                      THEN Append(spelled, homophone_error.ret[1])
                      ELSE spelled,
           calls |-> homophone_error.calls]

\* detect_token putting a new error at the head of the list (insert(0, ...))
detect_token_newest_first(errors, token, doc, groups) ==
  IF ~IsAlpha(token.text) THEN [errors |-> errors, calls |-> <<>>]
  ELSE LET spelled ==
             IF ~enchant_check(Lower(token.text))
             THEN <<[word |-> token.text,
                     position |-> token.idx,
                     type |-> "spelling",
                     suggestions |-> enchant_suggest(Lower(token.text))]>> \o errors
             ELSE errors
           homophone_error == check_homophones(token.text, doc, groups)
       IN [errors |-> IF homophone_error.ret # None
                      THEN <<homophone_error.ret[1]>> \o spelled
                      ELSE spelled,
           calls |-> homophone_error.calls]

\* detect_token reporting the offset of the first token with the same text
detect_token_first_offset(errors, token, doc, groups) ==
  IF ~IsAlpha(token.text) THEN [errors |-> errors, calls |-> <<>>]
  ELSE LET spelled ==
             IF ~enchant_check(Lower(token.text))
             THEN Append(errors, [word |-> token.text,
                                  position |-> FirstTokenIdx(doc, token.text),
                                  type |-> "spelling",
                                  suggestions |-> enchant_suggest(Lower(token.text))])
             ELSE errors
           homophone_error == check_homophones(token.text, doc, groups)
       IN [errors |-> IF homophone_error.ret # None
                      THEN Append(spelled, homophone_error.ret[1])
                      ELSE spelled,
           calls |-> homophone_error.calls]

\* the body of the loop of detect_errors for one token
detect_token(errors, token, doc, groups) ==
  IF ~IsAlpha(token.text) THEN [errors |-> errors, calls |-> <<>>]
  ELSE LET spelled ==
             IF ~enchant_check(Lower(token.text))
             THEN Append(errors, [word |-> token.text,
                                  position |-> token.idx,
                                  type |-> "spelling",
                                  suggestions |-> enchant_suggest(Lower(token.text))])
             ELSE errors
           homophone_error == check_homophones(token.text, doc, groups)
       IN [errors |-> IF homophone_error.ret # None
                      THEN Append(spelled, homophone_error.ret[1])
                      ELSE spelled,
           calls |-> homophone_error.calls]

\* MaskedText built with text.replace(word, "[MASK]"): every occurrence of
\* the word is masked
MaskedText_every_occurrence(text, word, position) ==
  PyReplace(text, word, "[MASK]")

\* text[:position] + "[MASK]" + text[position + len(word):]
MaskedText(text, word, position) ==
  SubSeq(text, 1, position) \o "[MASK]" \o SubSeq(text, position + Len(word) + 1, Len(text))

\* ValidPredictions comparing the candidates with the word case-sensitively
ValidPredictions_case_sensitive(predictions, word) ==
  SelectSeq(predictions, LAMBDA p : p.token_str # word)

\* [p for p in predictions if p['token_str'].lower() != word.lower()]
ValidPredictions(predictions, word) ==
  SelectSeq(predictions, LAMBDA p : Lower(p.token_str) # Lower(word))

\* bert_correct_spelling without the try/except around the fill-mask call
bert_correct_spelling_uncaught(text, word, position, answer) ==
  IF answer.raised THEN [raised |-> TRUE, value |-> None]
  ELSE LET valid_predictions == ValidPredictions(answer.value, word)
       IN IF Len(valid_predictions) > 0
          THEN [raised |-> FALSE, value |-> Some(valid_predictions[1].token_str)]
          ELSE [raised |-> FALSE, value |-> None]

\* _bert_correct_spelling(text, word, position), answer being the outcome of
\* the fill-mask call: an exception of the call is caught and gives None
bert_correct_spelling(text, word, position, answer) ==
  IF answer.raised THEN [raised |-> FALSE, value |-> None]
  ELSE LET valid_predictions == ValidPredictions(answer.value, word)
       IN IF Len(valid_predictions) > 0
          THEN [raised |-> FALSE, value |-> Some(valid_predictions[1].token_str)]
          ELSE [raised |-> FALSE, value |-> None]

\* ConfidenceWeight without the homophone branch
ConfidenceWeight_two_kinds(correction) ==
  IF correction.type = "spelling" THEN 9 ELSE 7

\* the weight of one correction in _calculate_confidence, in tenths
ConfidenceWeight(correction) ==
  IF correction.type = "spelling" THEN 9
  ELSE IF correction.type = "homophone" THEN 8
  ELSE 7

RECURSIVE SumScores(_)
\* sum(confidence_scores), in tenths
SumScores(corrections) ==
  IF Len(corrections) = 0 THEN 0
  ELSE ConfidenceWeight(Head(corrections)) + SumScores(Tail(corrections))

\* _calculate_confidence(corrections): the float is the fraction
\* tenths / (10 * count)
calculate_confidence(corrections) ==
  IF Len(corrections) = 0 THEN [tenths |-> 10, count |-> 1]
  ELSE [tenths |-> SumScores(corrections), count |-> Len(corrections)]

(***************************************************************************)
(* get_text_statistics and its collaborator, the textstat library.         *)
(***************************************************************************)
RECURSIVE WordsFrom(_, _)
\* the words of s from position k on: maximal runs of non-blank characters
WordsFrom(s, k) ==
  IF k > Len(s) THEN <<>>
  ELSE IF CharAt(s, k) = " " THEN WordsFrom(s, k + 1)
  ELSE LET wordEnd == CHOOSE e \in k..Len(s) :
                        /\ \A m \in k..e : CharAt(s, m) # " "
                        /\ (e = Len(s) \/ CharAt(s, e + 1) = " ")
       IN <<SubSeq(s, k, wordEnd)>> \o WordsFrom(s, wordEnd + 1)

\* text.split(" "): split at every single blank, empty strings included
split_on_blank(text) == PySplit(text, " ")

\* text.split(): split at runs of whitespace, no empty strings
split_whitespace(text) == WordsFrom(text, 1)

\* the functions of textstat in the order get_text_statistics calls them
TextstatCalls ==
  <<"sentence_count", "flesch_reading_ease", "flesch_kincaid_grade",
    "automated_readability_index">>

\* the outcomes of the textstat calls of one get_text_statistics call: the
\* values they return, or the function that raises
TextstatAnswers ==
  {[raised |-> "none", sentence_count |-> n, flesch_reading_ease |-> 75,
    flesch_kincaid_grade |-> 3, automated_readability_index |-> 2] : n \in {0, 1}}
  \cup
  {[raised |-> TextstatCalls[k], sentence_count |-> 1, flesch_reading_ease |-> 75,
    flesch_kincaid_grade |-> 3, automated_readability_index |-> 2] :
     k \in DOMAIN TextstatCalls}

\* get_text_statistics that answers with defaults when textstat fails
get_text_statistics_defaults(text, answer) ==
  [raised |-> FALSE,
   value |-> Some([word_count |-> Len(split_whitespace(text)),
                   character_count |-> Len(text),
                   sentence_count |-> IF answer.raised = "none" THEN answer.sentence_count ELSE 0,
                   flesch_reading_ease |-> answer.flesch_reading_ease,
                   flesch_kincaid_grade |-> answer.flesch_kincaid_grade,
                   readability_score |-> answer.automated_readability_index])]

\* get_text_statistics(text): the dict is built entry by entry and nothing
\* catches an exception of a textstat call
get_text_statistics(text, answer) ==
  IF answer.raised # "none" THEN [raised |-> TRUE, value |-> None]
  ELSE [raised |-> FALSE,
        value |-> Some([word_count |-> Len(split_whitespace(text)),
                        character_count |-> Len(text),
                        sentence_count |-> answer.sentence_count,
                        flesch_reading_ease |-> answer.flesch_reading_ease,
                        flesch_kincaid_grade |-> answer.flesch_kincaid_grade,
                        readability_score |-> answer.automated_readability_index])]

RECURSIVE Repeated(_, _)
\* s * n
Repeated(s, n) == IF n = 0 THEN "" ELSE s \o Repeated(s, n - 1)

\* the texts handed to get_text_statistics
StatTexts ==
  {"", "This is a test sentence.", " a  book ",
   "This is a test sentence. It has multiple sentences!"}
  \cup {Repeated("This is a test sentence. ", n) : n \in 1..MaxRepeats}

(***************************************************************************)
(* One call of the checker.  call holds the locals of the running call of  *)
(* a caller, other those of the call of a second, concurrent caller        *)
(* (text, doc, errors, corrected_text, corrections_made), the place it is  *)
(* at (pc, i the token detect_errors is at, j the error correct_text is    *)
(* at), what it returned, and the record of the resolver calls (with the   *)
(* token each was made for), fill-mask calls and replacements it made.     *)
(***************************************************************************)
IdleCall ==
  [pc |-> "idle", op |-> "none", text |-> "", doc |-> <<>>, i |-> 0,
   errors |-> <<>>, j |-> 0, corrected_text |-> "", corrections_made |-> <<>>,
   confidence |-> [tenths |-> 0, count |-> 1], result |-> None, raised |-> "none",
   textstat |-> "none", chained |-> FALSE,
   resolver_calls |-> <<>>, resolved_at |-> <<>>, bert_calls |-> <<>>,
   applied |-> <<>>]

\* self.nlp(text) for the texts the callers pass, tokenized once
Docs == [text \in Texts |-> nlp(text)]

\* begin_detect with the error list kept on the checker and never cleared
begin_detect_stale(op, text) ==
  [IdleCall EXCEPT !.pc = "detect", !.op = op, !.text = text,
                   !.doc = Docs[text], !.i = 1, !.errors = call.errors]

\* entry of detect_errors: errors = [], doc = self.nlp(text)
begin_detect(op, text) ==
  [IdleCall EXCEPT !.pc = "detect", !.op = op, !.text = text,
                   !.doc = Docs[text], !.i = 1]

\* one iteration of "for token in doc"; dict_raises: the dictionary service
\* raises while this token is examined, and nothing in detect_errors or
\* correct_text catches it
detect_step(c, groups, dict_raises) ==
  IF dict_raises THEN [c EXCEPT !.pc = "failed", !.raised = "enchant"]
  ELSE LET d == detect_token(c.errors, c.doc[c.i], c.doc, groups)
       IN [c EXCEPT !.errors = d.errors, !.i = c.i + 1,
                    !.resolver_calls = c.resolver_calls \o d.calls,
                    !.resolved_at = c.resolved_at \o [k \in DOMAIN d.calls |-> c.i]]

\* detect_return, the loop of correct_text starting after the first error
detect_return_skip_first(c) ==
  IF c.op = "detect_errors" THEN [c EXCEPT !.pc = "done"]
  ELSE [c EXCEPT !.pc = "correct", !.j = 2, !.corrected_text = c.text,
                 !.corrections_made = <<>>]

\* detect_return, the working text rebuilt from the tokens instead of copied
detect_return_rejoined(c) ==
  IF c.op = "detect_errors" THEN [c EXCEPT !.pc = "done"]
  ELSE [c EXCEPT !.pc = "correct", !.j = 1,
                 !.corrected_text = JoinWith([k \in 1..Len(c.doc) |-> c.doc[k].text], " "),
                 !.corrections_made = <<>>]

\* "return errors" of detect_errors: the caller gets the list, or
\* correct_text goes on with corrected_text = text, corrections_made = []
detect_return(c) ==
  IF c.op = "detect_errors" THEN [c EXCEPT !.pc = "done"]
  ELSE [c EXCEPT !.pc = "correct", !.j = 1, !.corrected_text = c.text,
                 !.corrections_made = <<>>]

\* corrected_text.replace(error['word'], suggestion)
apply_correction(corrected_text, word, suggestion) ==
  PyReplace(corrected_text, word, suggestion)

\* one iteration of "for error in errors" in correct_text; answer is the
\* outcome of the fill-mask call (made for a spelling error only)
correct_step(c, answer) ==
  LET error == c.errors[c.j]
      isSpelling == error.type = "spelling"
      isHomophone == error.type = "homophone"
      bert == IF isSpelling
              THEN bert_correct_spelling(c.text, error.word, error.position, answer)
              ELSE [raised |-> FALSE, value |-> None]
      suggestion == IF isSpelling THEN bert.value
                    ELSE IF isHomophone THEN Some(error.suggestions[1])
                    ELSE None
      after == IF suggestion # None
               THEN apply_correction(c.corrected_text, error.word, suggestion[1])
               ELSE c.corrected_text
      made == IF suggestion # None
              THEN Append(c.corrections_made,
                          [original |-> error.word, corrected |-> suggestion[1],
                           type |-> error.type])
              ELSE c.corrections_made
      called == IF isSpelling
                THEN Append(c.bert_calls,
                            [word |-> error.word, position |-> error.position,
                             masked_text |-> MaskedText(c.text, error.word, error.position),
                             answer |-> answer, result |-> bert])
                ELSE c.bert_calls
  IN IF bert.raised
     THEN [c EXCEPT !.pc = "failed", !.raised = "fill_mask", !.bert_calls = called]
     ELSE [c EXCEPT !.corrected_text = after, !.corrections_made = made,
                    !.j = c.j + 1, !.bert_calls = called,
                    !.applied = Append(c.applied,
                                       [error |-> c.j, before |-> c.corrected_text,
                                        suggestion |-> suggestion, after |-> after,
                                        made_before |-> c.corrections_made,
                                        made_after |-> made,
                                        answer |-> answer])]

\* correct_return with the corrections written into the text itself, so
\* that original_text reports the corrected text
correct_return_in_place(c) ==
  LET confidence == calculate_confidence(c.corrections_made)
  IN [c EXCEPT !.pc = "done", !.confidence = confidence,
               !.result = Some([original_text |-> c.corrected_text,
                                corrected_text |-> c.corrected_text,
                                suggestions |-> c.errors,
                                confidence_score |-> confidence,
                                error_type |-> "mixed",
                                corrections_made |-> c.corrections_made])]

\* the end of correct_text: the confidence and the SpellCheckResult
correct_return(c) ==
  LET confidence == calculate_confidence(c.corrections_made)
  IN [c EXCEPT !.pc = "done", !.confidence = confidence,
               !.result = Some([original_text |-> c.text,
                                corrected_text |-> c.corrected_text,
                                suggestions |-> c.errors,
                                confidence_score |-> confidence,
                                error_type |-> "mixed",
                                corrections_made |-> c.corrections_made])]

(***************************************************************************)
(* The state machine.                                                      *)
(***************************************************************************)
\* the checker used as a library (main): no web application process
NoApp == [phase |-> "none", spell_checker |-> "none", seed_failed |-> FALSE,
          request |-> "none", response |-> "none"]

\* the paths a ConfigManager is given: the default YAML file and a JSON file
ConfigPaths == {"config.yaml", "config.json"}

\* os.path.exists(path) is False
AbsentFile == [kind |-> "absent", syntax |-> "none", sections |-> <<>>, scalars |-> <<>>]

\* no configuration file exists and no ConfigManager is constructed
NoFiles == [path \in ConfigPaths |-> AbsentFile]

\* MockDatabase(db_path) on a fresh file: init_database creates the empty
\* tables and populate_sample_data seeds them
SeededOnce(sample) == ExecuteMany(EmptyTable, sample)

Init ==
  /\ misspellings = SeededOnce(SampleMisspellings).rows
  /\ homophones = SeededOnce(SampleHomophones).rows
  /\ sqlite_sequence = [misspellings |-> SeededOnce(SampleMisspellings).seq,
                        homophones |-> SeededOnce(SampleHomophones).seq]
  /\ seedings = 1
  /\ call = IdleCall
  /\ other = IdleCall
  /\ webapp = NoApp
  /\ config_manager = None
  /\ config_file = NoFiles

\* populate_sample_data on the existing tables, also run by every further
\* MockDatabase(db_path): CREATE TABLE IF NOT EXISTS keeps the tables
populate_sample_data ==
  /\ call.pc = "idle"
  /\ seedings < MaxSeedings
  /\ LET m == ExecuteMany([rows |-> misspellings, seq |-> sqlite_sequence.misspellings],
                          SampleMisspellings)
         h == ExecuteMany([rows |-> homophones, seq |-> sqlite_sequence.homophones],
                          SampleHomophones)
     IN /\ misspellings' = m.rows
        /\ homophones' = h.rows
        /\ sqlite_sequence' = [misspellings |-> m.seq, homophones |-> h.seq]
  /\ seedings' = seedings + 1
  /\ UNCHANGED <<call, other, webapp, config_manager, config_file>>

\* a caller calls correct_text(text), at the start or right after an earlier
\* call ended (chained)
CallCorrectText ==
  /\ call.pc \in {"idle", "done", "failed"}
  /\ \E text \in Texts :
       call' = [begin_detect("correct_text", text) EXCEPT !.chained = call.pc # "idle"]
  /\ UNCHANGED <<misspellings, homophones, sqlite_sequence, seedings, other, webapp, config_manager, config_file>>

\* a caller calls detect_errors(text), at the start or right after an earlier
\* call ended (chained)
CallDetectErrors ==
  /\ call.pc \in {"idle", "done", "failed"}
  /\ \E text \in Texts :
       call' = [begin_detect("detect_errors", text) EXCEPT !.chained = call.pc # "idle"]
  /\ UNCHANGED <<misspellings, homophones, sqlite_sequence, seedings, other, webapp, config_manager, config_file>>

\* a caller calls _calculate_confidence(corrections)
CallCalculateConfidence ==
  /\ call.pc = "idle"
  /\ \E corrections \in CorrectionLists :
       call' = [IdleCall EXCEPT !.pc = "done", !.op = "calculate_confidence",
                                !.corrections_made = corrections,
                                !.confidence = calculate_confidence(corrections)]
  /\ UNCHANGED <<misspellings, homophones, sqlite_sequence, seedings, other, webapp, config_manager, config_file>>

\* a caller calls _check_homophones(word, doc) with the doc of a text
CallCheckHomophones ==
  /\ call.pc = "idle"
  /\ \E word \in ProbeWords, text \in Texts :
       LET doc == nlp(text)
           h == check_homophones(word, doc, get_homophones(homophones))
       IN call' = [IdleCall EXCEPT !.pc = "done", !.op = "check_homophones",
                                   !.text = text, !.doc = doc,
                                   !.errors = IF h.ret = None THEN <<>> ELSE <<h.ret[1]>>,
                                   !.resolver_calls = h.calls,
                                   !.resolved_at = [k \in DOMAIN h.calls |-> 0]]
  /\ UNCHANGED <<misspellings, homophones, sqlite_sequence, seedings, other, webapp, config_manager, config_file>>

\* a caller calls get_text_statistics(text)
CallGetTextStatistics ==
  /\ call.pc = "idle"
  /\ \E text \in StatTexts, answer \in TextstatAnswers :
       LET stats == get_text_statistics(text, answer)
       IN call' = [IdleCall EXCEPT !.pc = IF stats.raised THEN "failed" ELSE "done",
                                   !.op = "get_text_statistics",
                                   !.text = text,
                                   !.raised = IF stats.raised THEN "textstat" ELSE "none",
                                   !.textstat = answer.raised,
                                   !.result = stats.value]
  /\ UNCHANGED <<misspellings, homophones, sqlite_sequence, seedings, other, webapp, config_manager, config_file>>

\* DetectToken with a MockDatabase constructed, and so the tables seeded
\* again, for every token examined
DetectToken_reseeding ==
  /\ call.pc = "detect"
  /\ call.i <= Len(call.doc)
  /\ \E dict_raises \in (IF IsAlpha(call.doc[call.i].text) THEN {FALSE, TRUE} ELSE {FALSE}) :
       call' = detect_step(call, get_homophones(homophones), dict_raises)
  /\ IF seedings < MaxSeedings
     THEN LET m == ExecuteMany([rows |-> misspellings, seq |-> sqlite_sequence.misspellings],
                               SampleMisspellings)
              h == ExecuteMany([rows |-> homophones, seq |-> sqlite_sequence.homophones],
                               SampleHomophones)
          IN /\ misspellings' = m.rows
             /\ homophones' = h.rows
             /\ sqlite_sequence' = [misspellings |-> m.seq, homophones |-> h.seq]
             /\ seedings' = seedings + 1
     ELSE UNCHANGED <<misspellings, homophones, sqlite_sequence, seedings>>
  /\ UNCHANGED <<other, webapp, config_manager, config_file>>

\* detect_errors examines the next token; the dictionary service is asked
\* about alphabetic tokens only
DetectToken ==
  /\ call.pc = "detect"
  /\ call.i <= Len(call.doc)
  /\ \E dict_raises \in (IF IsAlpha(call.doc[call.i].text) THEN {FALSE, TRUE} ELSE {FALSE}) :
       call' = detect_step(call, get_homophones(homophones), dict_raises)
  /\ UNCHANGED <<misspellings, homophones, sqlite_sequence, seedings, other, webapp, config_manager, config_file>>

\* detect_errors has examined every token
DetectReturn ==
  /\ call.pc = "detect"
  /\ call.i > Len(call.doc)
  /\ call' = detect_return(call)
  /\ UNCHANGED <<misspellings, homophones, sqlite_sequence, seedings, other, webapp, config_manager, config_file>>

\* correct_text handles the next error
CorrectError ==
  /\ call.pc = "correct"
  /\ call.j <= Len(call.errors)
  /\ \E answer \in (IF call.errors[call.j].type = "spelling"
                    THEN MlmAnswers(call.errors[call.j].word)
                    ELSE {[raised |-> FALSE, value |-> <<>>]}) :
       call' = correct_step(call, answer)
  /\ UNCHANGED <<misspellings, homophones, sqlite_sequence, seedings, other, webapp, config_manager, config_file>>

\* correct_text has handled every error
CorrectReturn ==
  /\ call.pc = "correct"
  /\ call.j > Len(call.errors)
  /\ call' = correct_return(call)
  /\ UNCHANGED <<misspellings, homophones, sqlite_sequence, seedings, other, webapp, config_manager, config_file>>

\* the caller has its result or its exception; the locals of the call are gone
Return ==
  /\ call.pc \in {"done", "failed"}
  /\ call' = IdleCall
  /\ UNCHANGED <<misspellings, homophones, sqlite_sequence, seedings, other, webapp, config_manager, config_file>>

Next ==
  \/ populate_sample_data
  \/ CallCorrectText
  \/ CallDetectErrors
  \/ CallCalculateConfidence
  \/ CallCheckHomophones
  \/ CallGetTextStatistics
  \/ DetectToken
  \/ DetectReturn
  \/ CorrectError
  \/ CorrectReturn
  \/ Return

Spec == Init /\ [][Next]_vars

(***************************************************************************)
(* The web application: the process starts, startup_event constructs the   *)
(* checker (seeding the lexicon, which may fail), and the spell-check      *)
(* endpoint serves one request at a time.                                  *)
(***************************************************************************)
\* module level of web_app.py: spell_checker = None, the server not yet up
StartingApp == [phase |-> "starting", spell_checker |-> "none", seed_failed |-> FALSE,
                request |-> "none", response |-> "none"]

InitWebApp ==
  /\ misspellings = <<>>
  /\ homophones = <<>>
  /\ sqlite_sequence = [misspellings |-> 0, homophones |-> 0]
  /\ seedings = 0
  /\ call = IdleCall
  /\ other = IdleCall
  /\ webapp = StartingApp
  /\ config_manager = None
  /\ config_file = NoFiles

\* startup_event: ContextAwareSpellChecker() is constructed inside try; when
\* it raises (seeded = FALSE) the handler prints, leaves spell_checker None
\* and returns, so the server goes on to serve
startup_event(app, seeded) ==
  [app EXCEPT !.phase = "serving",
              !.spell_checker = IF seeded THEN "ready" ELSE "none",
              !.seed_failed = ~seeded]

StartupEvent ==
  /\ webapp.phase = "starting"
  /\ \E seeded \in BOOLEAN :
       /\ webapp' = startup_event(webapp, seeded)
       /\ IF seeded
          THEN /\ misspellings' = SeededOnce(SampleMisspellings).rows
               /\ homophones' = SeededOnce(SampleHomophones).rows
               /\ sqlite_sequence' = [misspellings |-> SeededOnce(SampleMisspellings).seq,
                                      homophones |-> SeededOnce(SampleHomophones).seq]
               /\ seedings' = 1
          ELSE UNCHANGED <<misspellings, homophones, sqlite_sequence, seedings>>
  /\ UNCHANGED <<call, other, config_manager, config_file>>

\* POST /api/spell-check arrives: 503 when there is no checker, otherwise
\* spell_checker.correct_text(request.text) begins
SpellCheckRequest ==
  /\ webapp.phase = "serving"
  /\ webapp.request = "none" /\ webapp.response = "none"
  /\ call.pc = "idle"
  /\ \E text \in Texts \ {""} :
       IF webapp.spell_checker = "none"
       THEN /\ webapp' = [webapp EXCEPT !.request = text, !.response = "503"]
            /\ call' = call
       ELSE /\ webapp' = [webapp EXCEPT !.request = text]
            /\ call' = begin_detect("correct_text", text)
  /\ UNCHANGED <<misspellings, homophones, sqlite_sequence, seedings, other,
                 config_manager, config_file>>

\* correct_text returned: get_text_statistics(request.text), then the
\* response, or 500 when a textstat call raises
SpellCheckStatistics ==
  /\ webapp.request # "none" /\ webapp.response = "none"
  /\ call.pc = "done"
  /\ \E answer \in TextstatAnswers :
       LET stats == get_text_statistics(webapp.request, answer)
       IN webapp' = [webapp EXCEPT !.response = IF stats.raised THEN "500" ELSE "200"]
  /\ call' = IdleCall
  /\ UNCHANGED <<misspellings, homophones, sqlite_sequence, seedings, other,
                 config_manager, config_file>>

\* an exception left correct_text: except Exception -> HTTPException(500)
SpellCheckFailed ==
  /\ webapp.request # "none" /\ webapp.response = "none"
  /\ call.pc = "failed"
  /\ webapp' = [webapp EXCEPT !.response = "500"]
  /\ call' = IdleCall
  /\ UNCHANGED <<misspellings, homophones, sqlite_sequence, seedings, other,
                 config_manager, config_file>>

\* the response is sent and the request is over
SendResponse ==
  /\ webapp.response # "none"
  /\ webapp' = [webapp EXCEPT !.request = "none", !.response = "none"]
  /\ UNCHANGED <<misspellings, homophones, sqlite_sequence, seedings, call, other,
                 config_manager, config_file>>

NextWebApp ==
  \/ StartupEvent
  \/ SpellCheckRequest
  \/ (webapp.request # "none" /\ DetectToken)
  \/ (webapp.request # "none" /\ DetectReturn)
  \/ (webapp.request # "none" /\ CorrectError)
  \/ (webapp.request # "none" /\ CorrectReturn)
  \/ SpellCheckStatistics
  \/ SpellCheckFailed
  \/ SendResponse

SpecWebApp == InitWebApp /\ [][NextWebApp]_vars

(***************************************************************************)
(* config.py.  A field value is a Python scalar, kept as its type name and *)
(* its text; a configuration file holds the text of a document, here the   *)
(* scalars as they are written in the file, under their keys.              *)
(***************************************************************************)
StrValue(s) == [type |-> "str", value |-> s]

IntValue(digits) == [type |-> "int", value |-> digits]

FloatValue(digits) == [type |-> "float", value |-> digits]

BoolValue(b) == [type |-> "bool", value |-> b]

NoneValue == [type |-> "NoneType", value |-> "None"]

Digits == "0123456789"

IsDigits(s) == Len(s) > 0 /\ \A k \in 1..Len(s) : IndexIn(Digits, CharAt(s, k)) > 0

\* digits, a point, digits
IsDecimal(s) ==
  \E k \in 2..(Len(s) - 1) :
     /\ CharAt(s, k) = "."
     /\ IsDigits(SubSeq(s, 1, k - 1))
     /\ IsDigits(SubSeq(s, k + 1, Len(s)))

\* the text is written between two marks q
IsQuoted(text, q) ==
  Len(text) >= 2 /\ CharAt(text, 1) = q /\ CharAt(text, Len(text)) = q

Unquoted(text) == SubSeq(text, 2, Len(text) - 1)

\* the plain scalars YAML 1.1 reads as booleans and as null
YamlTrue == {"yes", "Yes", "YES", "true", "True", "TRUE", "on", "On", "ON"}

YamlFalse == {"no", "No", "NO", "false", "False", "FALSE", "off", "Off", "OFF"}

YamlNull == {"~", "null", "Null", "NULL", ""}

\* the type the YAML resolver gives a plain (unquoted) scalar
yaml_resolve(text) ==
  IF text \in YamlTrue \cup YamlFalse THEN "bool"
  ELSE IF text \in YamlNull THEN "null"
  ELSE IF IsDigits(text) THEN "int"
  ELSE IF IsDecimal(text) THEN "float"
  ELSE "str"

\* yaml.dump writing every string plain, without looking at what the plain
\* text would be read back as
yaml_represent_plain(v) ==
  IF v.type = "str" THEN v.value
  ELSE IF v.type = "bool" THEN (IF v.value = "True" THEN "true" ELSE "false")
  ELSE IF v.type = "NoneType" THEN "null"
  ELSE v.value

\* yaml.dump of a scalar: a string is written plain unless the plain text
\* would be read back as another type, then in single quotes
yaml_represent(v) ==
  IF v.type = "str"
  THEN (IF yaml_resolve(v.value) # "str" THEN "'" \o v.value \o "'" ELSE v.value)
  ELSE IF v.type = "bool" THEN (IF v.value = "True" THEN "true" ELSE "false")
  ELSE IF v.type = "NoneType" THEN "null"
  ELSE v.value

\* yaml.safe_load of a scalar
yaml_construct(text) ==
  IF IsQuoted(text, "'") \/ IsQuoted(text, "\"") THEN StrValue(Unquoted(text))
  ELSE IF yaml_resolve(text) = "bool"
       THEN BoolValue(IF text \in YamlTrue THEN "True" ELSE "False")
  ELSE IF yaml_resolve(text) = "null" THEN NoneValue
  ELSE IF yaml_resolve(text) = "int" THEN IntValue(text)
  ELSE IF yaml_resolve(text) = "float" THEN FloatValue(text)
  ELSE StrValue(text)

\* json.dump of a scalar
json_encode(v) ==
  IF v.type = "str" THEN "\"" \o v.value \o "\""
  ELSE IF v.type = "bool" THEN (IF v.value = "True" THEN "true" ELSE "false")
  ELSE IF v.type = "NoneType" THEN "null"
  ELSE v.value

\* json.load of a scalar
json_decode(text) ==
  IF IsQuoted(text, "\"") THEN StrValue(Unquoted(text))
  ELSE IF text \in {"true", "false"} THEN BoolValue(IF text = "true" THEN "True" ELSE "False")
  ELSE IF text = "null" THEN NoneValue
  ELSE IF IsDigits(text) THEN IntValue(text)
  ELSE FloatValue(text)

\* the dataclasses with their defaults
ModelConfig ==
  [name |-> StrValue("bert-base-uncased"), device |-> StrValue("auto"), max_length |-> IntValue("512"),
   batch_size |-> IntValue("1"), confidence_threshold |-> FloatValue("0.7")]

DatabaseConfig ==
  [path |-> StrValue("spell_checker.db"), auto_create |-> BoolValue("True"),
   populate_sample_data |-> BoolValue("True")]

SpellCheckConfig ==
  [check_spelling |-> BoolValue("True"), check_homophones |-> BoolValue("True"),
   check_grammar |-> BoolValue("False"), context_window_size |-> IntValue("3"),
   max_suggestions |-> IntValue("5"), min_confidence |-> FloatValue("0.5")]

UIConfig ==
  [theme |-> StrValue("light"), language |-> StrValue("en"), show_confidence |-> BoolValue("True"),
   show_statistics |-> BoolValue("True"), auto_correct |-> BoolValue("False")]

\* the sections of AppConfig with their dataclass, and its plain fields with
\* their defaults
SectionDefaults ==
  [model |-> ModelConfig, database |-> DatabaseConfig,
   spell_check |-> SpellCheckConfig, ui |-> UIConfig]

AppConfigDefaults ==
  [api_host |-> StrValue("0.0.0.0"), api_port |-> IntValue("8000"), api_debug |-> BoolValue("False"),
   log_level |-> StrValue("INFO"), log_file |-> NoneValue]

\* _create_default_config()
create_default_config == [sections |-> SectionDefaults, scalars |-> AppConfigDefaults]

\* self.config_path.endswith('.json')
EndsWithJson(path) ==
  Len(path) >= 5 /\ SubSeq(path, Len(path) - 4, Len(path)) = ".json"

SyntaxOf(path) == IF EndsWithJson(path) THEN "json" ELSE "yaml"

\* json.dump / yaml.dump of a dict of sections and plain fields: the file
\* holds a mapping, every scalar written in the syntax
Written(syntax, sections, scalars) ==
  LET text(v) == IF syntax = "json" THEN json_encode(v) ELSE yaml_represent(v)
  IN [kind |-> "mapping", syntax |-> syntax,
      sections |-> [s \in DOMAIN sections |->
                      [f \in DOMAIN sections[s] |-> text(sections[s][f])]],
      scalars |-> [k \in DOMAIN scalars |-> text(scalars[k])]]

\* json.load(f) / yaml.safe_load(f) on the file: raised, or the Python
\* object; is_mapping tells a dict from None or a list
load_document(path, content) ==
  LET failed == [raised |-> TRUE, is_mapping |-> FALSE, sections |-> <<>>, scalars |-> <<>>]
      other_object == [raised |-> FALSE, is_mapping |-> FALSE,
                       sections |-> <<>>, scalars |-> <<>>]
      value(text) == IF EndsWithJson(path) THEN json_decode(text) ELSE yaml_construct(text)
  IN IF content.kind \in {"unreadable", "malformed"} THEN failed
     ELSE IF content.kind = "empty"
          THEN (IF EndsWithJson(path) THEN failed ELSE other_object)
     ELSE IF content.kind = "sequence" THEN other_object
     ELSE IF EndsWithJson(path) /\ content.syntax # "json" THEN failed
     ELSE [raised |-> FALSE, is_mapping |-> TRUE,
           sections |-> [s \in DOMAIN content.sections |->
                           [f \in DOMAIN content.sections[s] |->
                              value(content.sections[s][f])]],
           scalars |-> [k \in DOMAIN content.scalars |-> value(content.scalars[k])]]

\* _dict_to_config(data): data.get on something that is no dict raises, and
\* so does a dataclass given a keyword it has no field for, or ** on a value
\* that is no mapping; a top-level key that is not asked for is not looked at
dict_to_config(data) ==
  LET kwargs(s) == IF s \in DOMAIN data.sections THEN data.sections[s] ELSE <<>>
      rejected(s) == \/ s \in DOMAIN data.scalars
                     \/ ~(DOMAIN kwargs(s) \subseteq DOMAIN SectionDefaults[s])
  IN IF ~data.is_mapping \/ \E s \in DOMAIN SectionDefaults : rejected(s)
     THEN [raised |-> TRUE, value |-> create_default_config]
     ELSE [raised |-> FALSE,
           value |-> [sections |->
                        [s \in DOMAIN SectionDefaults |->
                           [f \in DOMAIN SectionDefaults[s] |->
                              IF f \in DOMAIN kwargs(s) THEN kwargs(s)[f]
                              ELSE SectionDefaults[s][f]]],
                      scalars |->
                        [k \in DOMAIN AppConfigDefaults |->
                           IF k \in DOMAIN data.scalars THEN data.scalars[k]
                           ELSE AppConfigDefaults[k]]]]

\* _load_from_file without the try/except
load_from_file_uncaught(path, content) ==
  LET data == load_document(path, content)
  IN IF data.raised THEN [raised |-> TRUE, value |-> create_default_config]
     ELSE dict_to_config(data)

\* _load_from_file(): any exception of reading, parsing or converting is
\* caught and the default configuration returned
load_from_file(path, content) ==
  LET data == load_document(path, content)
      config == dict_to_config(data)
  IN IF data.raised \/ config.raised
     THEN [raised |-> FALSE, value |-> create_default_config]
     ELSE config

\* _load_config()
load_config(path, content) ==
  IF content.kind # "absent" THEN load_from_file(path, content)
  ELSE [raised |-> FALSE, value |-> create_default_config]

\* ConfigManager(config_path): "" stands for None
ConfigManager(config_path, files) ==
  LET path == IF config_path = "" THEN "config.yaml" ELSE config_path
      loaded == load_config(path, files[path])
  IN [raised |-> loaded.raised, config_path |-> path, config |-> loaded.value,
      last |-> [op |-> "load", section |-> "none", kwargs |-> <<>>]]

\* save_config(path): the file at save_path after it; a file that cannot be
\* opened stays as it is (open raises)
save_config(manager, path, files) ==
  LET save_path == IF path = "" THEN manager.config_path ELSE path
  IN IF files[save_path].kind = "unreadable" THEN files
     ELSE [files EXCEPT ![save_path] =
             Written(SyntaxOf(save_path), manager.config.sections, manager.config.scalars)]

\* for key, value in kwargs.items(): if hasattr(section, key): setattr(...)
update_section(config, section, kwargs) ==
  [config EXCEPT !.sections[section] =
     [f \in DOMAIN config.sections[section] |->
        IF f \in DOMAIN kwargs THEN kwargs[f] ELSE config.sections[section][f]]]

update_model_config(config, kwargs) == update_section(config, "model", kwargs)

update_spell_check_config(config, kwargs) == update_section(config, "spell_check", kwargs)

update_ui_config(config, kwargs) == update_section(config, "ui", kwargs)

\* files a ConfigManager may find at path: none, one that cannot be opened,
\* one that does not parse, an empty one, a document that is a list, and
\* mappings: a partial configuration (in the syntax of the path and in the
\* other one), one with a field its section does not have, and one with a
\* top-level key AppConfig does not have
InitialContents(path) ==
  LET syntax == SyntaxOf(path)
      other_syntax == IF syntax = "json" THEN "yaml" ELSE "json"
      partial_sections == [model |-> [name |-> StrValue("distilbert-base-uncased")]]
      partial_scalars == [api_port |-> IntValue("9000"), log_file |-> StrValue("app.log")]
  IN {AbsentFile,
      [AbsentFile EXCEPT !.kind = "unreadable"],
      [AbsentFile EXCEPT !.kind = "malformed"],
      [AbsentFile EXCEPT !.kind = "empty"],
      [AbsentFile EXCEPT !.kind = "sequence"],
      Written(syntax, partial_sections, partial_scalars),
      Written(other_syntax, partial_sections, partial_scalars),
      Written(syntax, [ui |-> [theme |-> StrValue("dark"), font |-> StrValue("mono")]], <<>>),
      Written(syntax, [ui |-> [theme |-> StrValue("dark")]], [version |-> IntValue("2")])}

\* the keyword arguments the callers pass to the update methods: a field of
\* the section, a name the section has no attribute for, a field of another
\* section
ModelKwargs ==
  {[name |-> StrValue("roberta-base")], [temperature |-> FloatValue("0.5")]}

SpellCheckKwargs ==
  {[check_grammar |-> BoolValue("True")], [theme |-> StrValue("dark")]}

UiKwargs ==
  {[language |-> StrValue("no"), font |-> StrValue("mono")],
   [log_level |-> StrValue("DEBUG")]}

InitConfig ==
  /\ misspellings = SeededOnce(SampleMisspellings).rows
  /\ homophones = SeededOnce(SampleHomophones).rows
  /\ sqlite_sequence = [misspellings |-> SeededOnce(SampleMisspellings).seq,
                        homophones |-> SeededOnce(SampleHomophones).seq]
  /\ seedings = 1
  /\ call = IdleCall
  /\ other = IdleCall
  /\ webapp = NoApp
  /\ config_manager = None
  /\ \E path \in ConfigPaths :
       \E content \in InitialContents(path) :
          config_file = [NoFiles EXCEPT ![path] = content]

\* ConfigManager(config_path) is constructed, the first time or again on the
\* path of the manager there is
ConstructConfigManager ==
  /\ \E config_path \in ConfigPaths \cup {""} :
       LET manager == ConfigManager(config_path, config_file)
       IN /\ IF config_manager = None THEN TRUE
             ELSE config_manager[1].config_path = manager.config_path
          /\ config_manager' = Some(manager)
  /\ UNCHANGED <<misspellings, homophones, sqlite_sequence, seedings, call, other,
                 webapp, config_file>>

UpdateModelConfig ==
  /\ config_manager # None
  /\ \E kwargs \in ModelKwargs :
       config_manager' =
         Some([config_manager[1] EXCEPT
                 !.config = update_model_config(config_manager[1].config, kwargs),
                 !.last = [op |-> "update", section |-> "model", kwargs |-> kwargs]])
  /\ UNCHANGED <<misspellings, homophones, sqlite_sequence, seedings, call, other,
                 webapp, config_file>>

UpdateSpellCheckConfig ==
  /\ config_manager # None
  /\ \E kwargs \in SpellCheckKwargs :
       config_manager' =
         Some([config_manager[1] EXCEPT
                 !.config = update_spell_check_config(config_manager[1].config, kwargs),
                 !.last = [op |-> "update", section |-> "spell_check", kwargs |-> kwargs]])
  /\ UNCHANGED <<misspellings, homophones, sqlite_sequence, seedings, call, other,
                 webapp, config_file>>

UpdateUiConfig ==
  /\ config_manager # None
  /\ \E kwargs \in UiKwargs :
       config_manager' =
         Some([config_manager[1] EXCEPT
                 !.config = update_ui_config(config_manager[1].config, kwargs),
                 !.last = [op |-> "update", section |-> "ui", kwargs |-> kwargs]])
  /\ UNCHANGED <<misspellings, homophones, sqlite_sequence, seedings, call, other,
                 webapp, config_file>>

\* save_config() to the manager's own path
SaveConfig ==
  /\ config_manager # None
  /\ config_file' = save_config(config_manager[1], "", config_file)
  /\ config_manager' =
       Some([config_manager[1] EXCEPT
               !.last = [op |-> IF config_file[config_manager[1].config_path].kind = "unreadable"
                                THEN "save failed" ELSE "save",
                         section |-> "none", kwargs |-> <<>>]])
  /\ UNCHANGED <<misspellings, homophones, sqlite_sequence, seedings, call, other, webapp>>

NextConfig ==
  \/ ConstructConfigManager
  \/ UpdateModelConfig
  \/ UpdateSpellCheckConfig
  \/ UpdateUiConfig
  \/ SaveConfig

SpecConfig == InitConfig /\ [][NextConfig]_vars

(***************************************************************************)
(* Two callers running correct_text on the same checker at the same time,  *)
(* their steps interleaved; the lexicon is not seeded again meanwhile.     *)
(***************************************************************************)
Callers == {1, 2}

\* the locals of the call of caller p, and those of the other caller
Frame(p) == IF p = 1 THEN call ELSE other

Peer(p) == IF p = 1 THEN other ELSE call

SetFrame(p, c) ==
  IF p = 1 THEN call' = c /\ other' = other ELSE other' = c /\ call' = call

\* the working state with corrected_text and corrections_made kept on the
\* checker object, where the other call writes them too
working_state_on_self(mine, theirs) ==
  [mine EXCEPT !.corrected_text = theirs.corrected_text,
               !.corrections_made = theirs.corrections_made]

\* what a step of a call reads: errors, corrected_text and corrections_made
\* are locals of detect_errors and correct_text, so its own frame only
working_state(mine, theirs) == mine

\* the texts and the fill-mask outcomes of the concurrent calls
ConcurrentTexts == {"teh cat teh", "hte lighter"}

ConcurrentAnswers(word) ==
  {[raised |-> TRUE, value |-> <<>>],
   [raised |-> FALSE, value |-> <<>>],
   [raised |-> FALSE, value |-> <<[token_str |-> MlmCandidate(word)]>>]}

ConcCall(p) ==
  /\ Frame(p).pc = "idle"
  /\ \E text \in ConcurrentTexts : SetFrame(p, begin_detect("correct_text", text))
  /\ UNCHANGED <<misspellings, homophones, sqlite_sequence, seedings, webapp, config_manager, config_file>>

ConcDetectToken(p) ==
  /\ Frame(p).pc = "detect"
  /\ Frame(p).i <= Len(Frame(p).doc)
  /\ SetFrame(p, detect_step(working_state(Frame(p), Peer(p)),
                             get_homophones(homophones), FALSE))
  /\ UNCHANGED <<misspellings, homophones, sqlite_sequence, seedings, webapp, config_manager, config_file>>

ConcDetectReturn(p) ==
  /\ Frame(p).pc = "detect"
  /\ Frame(p).i > Len(Frame(p).doc)
  /\ SetFrame(p, detect_return(working_state(Frame(p), Peer(p))))
  /\ UNCHANGED <<misspellings, homophones, sqlite_sequence, seedings, webapp, config_manager, config_file>>

ConcCorrectError(p) ==
  /\ Frame(p).pc = "correct"
  /\ Frame(p).j <= Len(Frame(p).errors)
  /\ \E answer \in ConcurrentAnswers(Frame(p).errors[Frame(p).j].word) :
       SetFrame(p, correct_step(working_state(Frame(p), Peer(p)), answer))
  /\ UNCHANGED <<misspellings, homophones, sqlite_sequence, seedings, webapp, config_manager, config_file>>

ConcCorrectReturn(p) ==
  /\ Frame(p).pc = "correct"
  /\ Frame(p).j > Len(Frame(p).errors)
  /\ SetFrame(p, correct_return(working_state(Frame(p), Peer(p))))
  /\ UNCHANGED <<misspellings, homophones, sqlite_sequence, seedings, webapp, config_manager, config_file>>

ConcReturn(p) ==
  /\ Frame(p).pc = "done"
  /\ SetFrame(p, IdleCall)
  /\ UNCHANGED <<misspellings, homophones, sqlite_sequence, seedings, webapp, config_manager, config_file>>

NextConcurrent ==
  \E p \in Callers :
    \/ ConcCall(p)
    \/ ConcDetectToken(p)
    \/ ConcDetectReturn(p)
    \/ ConcCorrectError(p)
    \/ ConcCorrectReturn(p)
    \/ ConcReturn(p)

SpecConcurrent == Init /\ [][NextConcurrent]_vars

(***************************************************************************)
(* Properties.                                                             *)
(***************************************************************************)
\* a correct_text call has returned its SpellCheckResult
Returned == call.pc = "done" /\ call.op = "correct_text"

\* the float value tenths / (10 * count) equals n / 10
IsTenths(confidence, n) == confidence.tenths = n * confidence.count

\* C1: for every text in which detect_errors flags no token (the empty text
\* included), correct_text returns corrected_text equal to the input, no
\* corrections and confidence 1.0; an already-corrected output with no flagged
\* token is such a text, so checking it again returns it unchanged.
C1_CleanTextUnchanged ==
  (Returned /\ call.result[1].suggestions = <<>>) =>
     /\ call.result[1].corrected_text = call.text
     /\ call.result[1].corrections_made = <<>>
     /\ IsTenths(call.result[1].confidence_score, 10)

C1_Witness ==
  Returned /\ call.text = "the cat the" /\ call.result[1].suggestions = <<>>

\* s.replace(old, new, 1): only the first occurrence
ReplaceFirst(s, old, new) ==
  IF Contains(old, s)
  THEN LET at == CHOOSE k \in 1..Len(s) :
                   /\ SubSeq(s, k, k + Len(old) - 1) = old
                   /\ \A m \in 1..(k - 1) : SubSeq(s, m, m + Len(old) - 1) # old
       IN SubSeq(s, 1, at - 1) \o new \o SubSeq(s, at + Len(old), Len(s))
  ELSE s

\* C2: every accepted correction rewrites only the first remaining occurrence
\* of the error's word in the working text; the other occurrences are left
\* for their own error entries.
C2_FirstOccurrenceOnly ==
  \A k \in DOMAIN call.applied :
    LET a == call.applied[k]
    IN a.suggestion # None =>
         a.after = ReplaceFirst(a.before, call.errors[a.error].word, a.suggestion[1])

\* the keyword set the resolver associates with a group member
KeywordsOf(member) ==
  CASE member = "there" -> ThereKeywords
    [] member = "their" -> TheirKeywords
    [] member = "they're" -> TheyreKeywords
    [] OTHER -> <<>>

\* the first member, in group order, whose keyword set has a keyword in the
\* lower-cased window
FirstMatchingMember(words, context) ==
  LET matches(k) == AnyKeywordIn(KeywordsOf(words[k]), Lower(context))
  IN IF \E k \in 1..Len(words) : matches(k)
     THEN Some(words[CHOOSE k \in 1..Len(words) :
                       matches(k) /\ \A m \in 1..(k - 1) : ~matches(m)])
     ELSE None

\* C3: the resolver tests the members of the owning group in group order and
\* returns the first member whose keyword set matches the window, none only
\* when no member's keyword set matches.
C3_FirstMatchingMemberWins ==
  \A k \in DOMAIN call.resolver_calls :
    LET r == call.resolver_calls[k]
    IN r.result = FirstMatchingMember(r.group.words, r.context)

\* the texts that use "Their" where "They're" is required
MisusedTheirTexts ==
  {"Their going to the store.", "Their going to the store to buy there groceries."}

\* C4: for a text that uses a member of a seeded homophone group where
\* another member is required, the detected errors hold a homophone error
\* suggesting another member, and correct_text records a homophone correction.
C4_MisusedHomophoneDetected ==
  (call.pc = "done" /\ call.text \in MisusedTheirTexts) =>
     /\ \E k \in DOMAIN call.errors :
          /\ call.errors[k].type = "homophone"
          /\ call.errors[k].word = "Their"
          /\ call.errors[k].suggestions[1] \in {"there", "they're"}
     /\ call.op = "correct_text" =>
          \E k \in DOMAIN call.corrections_made :
            /\ call.corrections_made[k].type = "homophone"
            /\ call.corrections_made[k].original = "Their"

\* C5: seeding again never adds a second misspellings row for the same
\* incorrect word: get_misspellings() is as long as after the first seeding.
C5_SeedIdempotent ==
  LET listed == get_misspellings(misspellings)
  IN /\ Len(listed) = Len(get_misspellings(SeededOnce(SampleMisspellings).rows))
     /\ \A a, b \in DOMAIN listed : listed[a][1] = listed[b][1] => a = b

\* the number of corrections of a kind
CountKind(corrections, kind) ==
  Cardinality({k \in DOMAIN corrections : corrections[k].type = kind})

\* C6: for a non-empty list the confidence is the mean of the weights 0.9
\* (spelling), 0.8 (homophone), 0.7 (other), within [0,1], 0.8 for one of
\* each; for the empty list it is 1.0.
C6_ConfidenceIsMean ==
  (call.pc = "done" /\ call.op \in {"calculate_confidence", "correct_text"}) =>
     LET cs == call.corrections_made
         n == Len(cs)
         spelling == CountKind(cs, "spelling")
         homophone == CountKind(cs, "homophone")
         rest == n - spelling - homophone
         conf == call.confidence
     IN IF n = 0 THEN IsTenths(conf, 10)
        ELSE /\ conf.count > 0
             /\ conf.tenths * n = (9 * spelling + 8 * homophone + 7 * rest) * conf.count
             /\ 0 <= conf.tenths /\ conf.tenths <= 10 * conf.count
             /\ (spelling = 1 /\ homophone = 1 /\ rest = 1) => IsTenths(conf, 8)

C6_Witness ==
  /\ call.pc = "done" /\ call.op = "calculate_confidence"
  /\ Len(call.corrections_made) = 3
  /\ CountKind(call.corrections_made, "spelling") = 1
  /\ CountKind(call.corrections_made, "homophone") = 1

\* C7: _bert_correct_spelling returns the highest-ranked candidate that
\* differs, case-insensitively, from the flagged word, no suggestion when the
\* list is empty or every candidate equals the word, and never a candidate
\* equal to the word.
C7_TopDifferingCandidate ==
  \A k \in DOMAIN call.bert_calls :
    LET b == call.bert_calls[k]
        preds == b.answer.value
        differs(m) == Lower(preds[m].token_str) # Lower(b.word)
    IN ~b.answer.raised =>
         /\ ~b.result.raised
         /\ b.result.value =
              (IF \E m \in 1..Len(preds) : differs(m)
               THEN Some(preds[CHOOSE m \in 1..Len(preds) :
                                 differs(m) /\ \A q \in 1..(m - 1) : ~differs(q)].token_str)
               ELSE None)
         /\ b.result.value # None => Lower(b.result.value[1]) # Lower(b.word)

C7_Witness ==
  \E k \in DOMAIN call.bert_calls :
    LET b == call.bert_calls[k]
    IN /\ ~b.answer.raised
       /\ Len(b.answer.value) = 2
       /\ b.answer.value[1].token_str # b.word
       /\ Lower(b.answer.value[1].token_str) = Lower(b.word)
       /\ b.result.value = Some(b.answer.value[2].token_str)

\* C8: when the fill-mask call raises for a spelling error, that error gets
\* no correction (working text and corrections_made stay as they are), and
\* correct_text still handles every remaining error and returns a result.
C8_ModelFailureSkipsError ==
  /\ call.raised # "fill_mask"
  /\ \A k \in DOMAIN call.applied :
       LET a == call.applied[k]
       IN a.answer.raised =>
            /\ a.after = a.before
            /\ a.made_after = a.made_before
  /\ Returned =>
       /\ call.result # None
       /\ Len(call.applied) = Len(call.errors)
       /\ \A k \in DOMAIN call.applied : call.applied[k].error = k

C8_Witness ==
  /\ Returned
  /\ Len(call.applied) = 2
  /\ call.applied[1].answer.raised
  /\ ~call.applied[2].answer.raised
  /\ Len(call.result[1].corrections_made) = 1
  /\ call.result[1].corrected_text = "I recieve the box."

\* C9: a failure of the dictionary service while a token is examined is not
\* fatal: detect_errors and correct_text go on and return a result.
C9_DictionaryFailureNonFatal ==
  call.op \in {"detect_errors", "correct_text"} => call.pc # "failed"

\* the text with the span [position, position + len(word)) replaced
SpanReplaced(text, position, word, new) ==
  SubSeq(text, 1, position) \o new \o SubSeq(text, position + Len(word) + 1, Len(text))

\* C10: when exactly one token is flagged, as a spelling error, and the
\* model's top candidate differs from it, correct_text returns the input with
\* that word replaced by the candidate, one correction of kind spelling and
\* confidence 0.9.
C10_SingleSpellingCorrection ==
  (/\ Returned
   /\ Len(call.errors) = 1
   /\ call.errors[1].type = "spelling"
   /\ ~call.applied[1].answer.raised
   /\ Len(call.applied[1].answer.value) > 0
   /\ Lower(call.applied[1].answer.value[1].token_str) # Lower(call.errors[1].word)) =>
     LET e == call.errors[1]
         top == call.applied[1].answer.value[1].token_str
     IN /\ call.result[1].corrected_text = SpanReplaced(call.text, e.position, e.word, top)
        /\ call.result[1].corrections_made =
             <<[original |-> e.word, corrected |-> top, type |-> "spelling"]>>
        /\ IsTenths(call.result[1].confidence_score, 9)

\* a get_text_statistics call has ended, with its record or its exception
StatisticsEnded == call.op = "get_text_statistics" /\ call.pc \in {"done", "failed"}

\* the number of places of the text where a word begins: a non-blank
\* character at the start of the text or after a blank
WordStarts(text) ==
  Cardinality({k \in 1..Len(text) :
                 CharAt(text, k) # " " /\ (k = 1 \/ CharAt(text, k - 1) = " ")})

\* C11: get_text_statistics reports word_count equal to the number of
\* whitespace-delimited tokens of the text and character_count equal to its
\* length: 5 words for 'This is a test sentence.', and more words than
\* repetitions for that sentence repeated.
C11_WordAndCharacterCount ==
  (call.op = "get_text_statistics" /\ call.pc = "done") =>
     /\ call.result[1].word_count = WordStarts(call.text)
     /\ call.result[1].character_count = Len(call.text)
     /\ call.text = "This is a test sentence." => call.result[1].word_count = 5
     /\ \A n \in 1..MaxRepeats :
          call.text = Repeated("This is a test sentence. ", n) =>
            /\ call.result[1].word_count = 5 * n
            /\ call.result[1].word_count > n

C11_Witness ==
  /\ call.op = "get_text_statistics" /\ call.pc = "done"
  /\ call.text = Repeated("This is a test sentence. ", MaxRepeats)
  /\ call.result[1].word_count = 5 * MaxRepeats

\* C12: a failure of the readability collaborator inside get_text_statistics
\* is never swallowed: the call ends in a failure and returns no partial or
\* defaulted statistics record.
C12_ReadabilityFailurePropagates ==
  (StatisticsEnded /\ call.textstat # "none") =>
     /\ call.pc = "failed"
     /\ call.raised = "textstat"
     /\ call.result = None

C12_Witness ==
  /\ StatisticsEnded
  /\ call.textstat = "flesch_kincaid_grade"
  /\ call.pc = "failed"
  /\ call.text = "This is a test sentence."

\* the texts of the tokens of a doc
TokenTexts(doc) == [k \in 1..Len(doc) |-> doc[k].text]

\* the tokens [max(0, i - 3), min(n, i + 4)) around the token at the 1-based
\* place t (i = t - 1), joined by blanks
WindowAround(doc, t) ==
  JoinWith(SubSeq(TokenTexts(doc), Max(0, t - 1 - DefaultWindowSize) + 1,
                  Min(Len(doc), t + DefaultWindowSize)), " ")

\* C13: the context window built for a homophone candidate token at index i
\* of an n-token text is the token range [max(0, i-3), min(n, i+4)) around
\* that token's own position, also when the same word occurs earlier.
C13_WindowCenteredOnToken ==
  \A k \in DOMAIN call.resolver_calls :
    call.resolved_at[k] > 0 =>
      call.resolver_calls[k].context = WindowAround(call.doc, call.resolved_at[k])

\* C14: if the target word is not among the tokens of the document,
\* _get_context_window returns the empty window without failing and the
\* resolver produces no correction for that word.
C14_AbsentWordEmptyWindow ==
  \A k \in DOMAIN call.resolver_calls :
    ~InList(call.resolver_calls[k].word, TokenTexts(call.doc)) =>
       /\ call.pc = "done"
       /\ call.resolver_calls[k].context = ""
       /\ call.resolver_calls[k].result = None
       /\ call.errors = <<>>

C14_Witness ==
  /\ call.op = "check_homophones" /\ call.pc = "done"
  /\ call.text = "Their going to the store."
  /\ Len(call.resolver_calls) = 1
  /\ call.resolver_calls[1].word = "they're"
  /\ call.resolver_calls[1].context = ""

\* the detection loop of a detect_errors or correct_text call is running or over
Detecting ==
  call.op \in {"detect_errors", "correct_text"} /\ call.pc \in {"detect", "correct", "done"}

\* the word is, case-insensitively, a member of some homophone group
IsGroupMember(word, groups) ==
  \E g \in DOMAIN groups : InList(Lower(word), groups[g].words)

\* C15: every token that equals, case-insensitively, a member of some
\* homophone group is passed to context resolution, also a member that is not
\* purely alphabetic such as "they're".
C15_EveryMemberTokenResolved ==
  Detecting =>
    \A t \in 1..Len(call.doc) :
      (t < call.i /\ IsGroupMember(call.doc[t].text, get_homophones(homophones))) =>
         \E k \in DOMAIN call.resolved_at : call.resolved_at[k] = t

\* the error detect_errors is to emit for a misspelled token
SpellingErrorOf(token) ==
  [word |-> token.text, position |-> token.idx, type |-> "spelling",
   suggestions |-> enchant_suggest(Lower(token.text))]

\* C16: detect_errors emits exactly one spelling error, with the token's
\* text, character offset and the dictionary's suggestions, for every
\* alphabetic token whose lower-case form the dictionary rejects, and none
\* for any other token; a text with a misspelled word gives a non-empty list.
C16_SpellingErrorPerRejectedToken ==
  (call.op \in {"detect_errors", "correct_text"} /\ call.pc \in {"correct", "done"}) =>
     LET rejected == SelectSeq(call.doc,
                       LAMBDA t : IsAlpha(t.text) /\ ~enchant_check(Lower(t.text)))
         spelling == SelectSeq(call.errors, LAMBDA e : e.type = "spelling")
     IN /\ spelling = [k \in 1..Len(rejected) |-> SpellingErrorOf(rejected[k])]
        /\ Len(rejected) > 0 => Len(call.errors) > 0

C16_Witness ==
  /\ call.op = "detect_errors" /\ call.pc = "done"
  /\ call.text = "teh cat teh"
  /\ Len(call.errors) = 2
  /\ call.errors[2].position = 8

\* C17: during one correct_text call the fill-mask service is invoked exactly
\* once per detected spelling error, one call after the other in detection
\* order, never for a homophone error and never without a spelling error.
C17_OneModelCallPerSpellingError ==
  (call.op = "correct_text" /\ call.pc \in {"correct", "done"}) =>
     LET handled == SubSeq(call.errors, 1, Min(call.j - 1, Len(call.errors)))
         spelling == SelectSeq(handled, LAMBDA e : e.type = "spelling")
     IN /\ Len(call.bert_calls) = Len(spelling)
        /\ \A k \in 1..Len(spelling) :
             /\ call.bert_calls[k].word = spelling[k].word
             /\ call.bert_calls[k].position = spelling[k].position
        /\ call.pc = "done" => call.j = Len(call.errors) + 1

C17_Witness ==
  /\ Returned
  /\ call.text = "I recieve teh box."
  /\ Len(call.bert_calls) = 2
  /\ call.bert_calls[1].word = "recieve"
  /\ call.bert_calls[2].word = "teh"

\* the frame of a call of op on text that starts from nothing
FreshCall(op, text) ==
  [IdleCall EXCEPT !.pc = "detect", !.op = op, !.text = text, !.doc = Docs[text], !.i = 1]

RECURSIVE DetectAll(_, _)
\* the detection loop run to its end on its own
DetectAll(c, groups) ==
  IF c.i > Len(c.doc) THEN c ELSE DetectAll(detect_step(c, groups, FALSE), groups)

RECURSIVE CorrectAll(_, _)
\* the correction loop run to its end on its own, with the given outcomes
\* of the fill-mask calls
CorrectAll(c, answers) ==
  IF c.j > Len(c.errors) THEN c ELSE CorrectAll(correct_step(c, answers[c.j]), answers)

\* the collaborator answers a call got, error by error
AnswersOf(c) == [k \in DOMAIN c.applied |-> c.applied[k].answer]

\* the call of op on text run alone, from nothing, with the same lexicon and
\* the same collaborator answers as the call c
DetectedAlone(c, groups) == detect_return(DetectAll(FreshCall(c.op, c.text), groups))

\* its result, detected being what its detection gives alone
ResultAlone(c, detected) ==
  correct_return(CorrectAll(detected, AnswersOf(c))).result

\* C18: correct_text calls on the same checker that interleave at any step,
\* the lexicon not being reseeded, each return exactly the result they would
\* return when run alone.
C18_InterleavedCallsIndependent ==
  \A p \in Callers :
    Frame(p).pc = "done" =>
      Frame(p).result =
        ResultAlone(Frame(p), DetectedAlone(Frame(p), get_homophones(homophones)))

C18_Witness ==
  /\ call.pc = "done" /\ call.text = "teh cat teh"
  /\ Len(call.corrections_made) = 2
  /\ other.pc = "correct" /\ other.text = "hte lighter"
  /\ other.j = 2 /\ Len(other.corrections_made) = 1

\* C19: given the same text, lexicon and collaborator answers, detect_errors
\* and correct_text return the same errors, the same resolved homophone
\* members and the same result on every run, whatever was checked before.
C19_NothingCarriesOver ==
  (call.op \in {"detect_errors", "correct_text"} /\ call.pc = "done") =>
     LET alone == DetectedAlone(call, get_homophones(homophones))
     IN /\ call.errors = alone.errors
        /\ call.resolver_calls = alone.resolver_calls
        /\ call.op = "correct_text" =>
             call.result = ResultAlone(call, alone)

C19_Witness ==
  /\ Returned /\ call.chained
  /\ call.text = "There is a book."
  /\ Len(call.resolver_calls) = 1
  /\ call.resolver_calls[1].result = Some("there")

\* C20: once the lexicon is seeded, no step of a detect_errors, correct_text
\* or get_text_statistics call changes the misspellings or homophones tables:
\* get_misspellings and get_homophones return the same entries after it.
C20_CallsLeaveLexiconUnchanged ==
  [][call' # call =>
       /\ \/ misspellings' = misspellings
          \/ get_misspellings(misspellings') = get_misspellings(misspellings)
       /\ \/ homophones' = homophones
          \/ get_homophones(homophones') = get_homophones(homophones)]_vars

C20_Witness ==
  /\ Returned
  /\ seedings = 2
  /\ Len(get_homophones(homophones)) = 2 * Len(SampleHomophones)
  /\ Len(call.resolver_calls) > 0

\* C21: for every input text, whatever corrections are applied, the result
\* of correct_text has original_text equal to the input text verbatim: the
\* corrections change only the working copy returned as corrected_text.
C21_OriginalTextVerbatim ==
  Returned => call.result[1].original_text = call.text

C21_Witness ==
  /\ Returned
  /\ call.text = "I recieve teh box."
  /\ Len(call.corrections_made) = 2
  /\ call.result[1].corrected_text # call.text

\* C22: a lexicon seed failure during initialization is fatal: construction
\* of the checker fails, start-up is aborted and the process never reaches
\* the serving phase, so no text-check request is accepted or served by it.
C22_SeedFailureAbortsStartup ==
  webapp.seed_failed =>
    /\ webapp.spell_checker = "none"
    /\ webapp.phase # "serving"
    /\ webapp.request = "none"
    /\ webapp.response \notin {"200", "500"}

\* the error of the earlier list place comes from an earlier token, or from
\* the same token and is its spelling error
InDetectionOrder(earlier, later) ==
  \/ earlier.position < later.position
  \/ /\ earlier.position = later.position
     /\ earlier.type = "spelling" /\ later.type = "homophone"

RECURSIVE SubsequenceFrom(_, _, _, _)
\* corrections[k..] can be matched, in order, with errors among errors[j..],
\* each correction having the word and the kind of its error
SubsequenceFrom(corrections, errors, k, j) ==
  IF k > Len(corrections) THEN TRUE
  ELSE IF j > Len(errors) THEN FALSE
  ELSE IF /\ corrections[k].original = errors[j].word
          /\ corrections[k].type = errors[j].type
       THEN SubsequenceFrom(corrections, errors, k + 1, j + 1)
       ELSE SubsequenceFrom(corrections, errors, k, j + 1)

\* C23: detect_errors lists the errors in token order, a token's spelling
\* error before its homophone error, and correct_text applies them in that
\* order: corrections_made is an order-preserving subsequence of the errors
\* handled so far, each entry with the word and kind of its error, and so
\* never longer than the error list.
C23_CorrectionsFollowDetectionOrder ==
  /\ Detecting =>
       \A k, l \in DOMAIN call.errors :
          k < l => InDetectionOrder(call.errors[k], call.errors[l])
  /\ (call.op = "correct_text" /\ call.pc \in {"correct", "done"}) =>
       /\ SubsequenceFrom(call.corrections_made,
                          SubSeq(call.errors, 1, Min(call.j - 1, Len(call.errors))), 1, 1)
       /\ Len(call.corrections_made) <= Len(call.errors)

C23_Witness ==
  /\ Returned
  /\ Len(call.errors) = 2
  /\ Len(call.corrections_made) = 1
  /\ call.corrections_made[1].original = call.errors[2].word
  /\ call.errors[1].word # call.errors[2].word

\* masked is text with the characters [position, position + n) replaced by
\* the one token "[MASK]" and every other character where it was
OnlySpanMasked(masked, text, position, n) ==
  /\ position >= 0 /\ position + n <= Len(text)
  /\ Len(masked) = Len(text) - n + Len("[MASK]")
  /\ \A k \in 1..position : CharAt(masked, k) = CharAt(text, k)
  /\ SubSeq(masked, position + 1, position + Len("[MASK]")) = "[MASK]"
  /\ \A k \in (position + n + 1)..Len(text) :
        CharAt(masked, k - n + Len("[MASK]")) = CharAt(text, k)

\* C24: for every spelling error the text submitted to the model is the
\* original input text, not the partly corrected working text, with exactly
\* the span [position, position + len(word)) replaced by one mask token, also
\* when earlier errors of the call were already corrected.
C24_MaskedOriginalText ==
  (call.op = "correct_text" /\ call.pc \in {"correct", "done"}) =>
     \A k \in DOMAIN call.bert_calls :
        LET made == call.bert_calls[k]
        IN /\ OnlySpanMasked(made.masked_text, call.text, made.position, Len(made.word))
           /\ SubSeq(call.text, made.position + 1, made.position + Len(made.word)) = made.word

C24_Witness ==
  /\ call.op = "correct_text" /\ call.pc = "correct"
  /\ call.text = "teh cat teh"
  /\ Len(call.bert_calls) = 2
  /\ call.applied[1].after # call.text
  /\ call.bert_calls[2].masked_text = "teh cat [MASK]"

\* context is the texts of the consecutive tokens first..last of the document,
\* joined by blanks
IsTokenRun(context, doc, first, last) ==
  context = JoinWith(SubSeq(TokenTexts(doc), first, last), " ")

\* C25: whenever the target word is one of the document's tokens, the window
\* returned by _get_context_window contains the target word and holds at most
\* 2 * window_size + 1 tokens, all of them consecutive tokens of the document.
C25_WindowBoundedRunWithTarget ==
  \A k \in DOMAIN call.resolver_calls :
    LET made == call.resolver_calls[k]
    IN InList(made.word, TokenTexts(call.doc)) =>
         \E first \in DOMAIN call.doc :
           \E last \in first..Min(Len(call.doc), first + 2 * DefaultWindowSize) :
              /\ IsTokenRun(made.context, call.doc, first, last)
              /\ \E t \in first..last : call.doc[t].text = made.word

C25_Witness ==
  /\ call.op = "check_homophones" /\ call.pc = "done"
  /\ call.text = "Their going to the store to buy there groceries."
  /\ Len(call.doc) = 10
  /\ Len(call.resolver_calls) = 1
  /\ call.resolver_calls[1].word = "there"
  /\ call.resolver_calls[1].context = "store to buy there groceries ."

C27_PositionIsOffsetOfWord ==
  (Detecting \/ (call.op = "check_homophones" /\ call.pc = "done")) =>
     \A k \in DOMAIN call.errors :
        LET error == call.errors[k]
        IN /\ 0 <= error.position
           /\ error.position + Len(error.word) <= Len(call.text)
           /\ SubSeq(call.text, error.position + 1, error.position + Len(error.word))
                = error.word

C27_Witness ==
  /\ call.op = "detect_errors" /\ call.pc = "done"
  /\ call.text = "I recieve teh box."
  /\ Len(call.errors) = 2
  /\ call.errors[1].position = 2
  /\ call.errors[2].position = 10

RECURSIVE FindFrom(_, _, _)
\* the least place >= k at which sub occurs in s, 0 when there is none
FindFrom(s, sub, k) ==
  IF k + Len(sub) - 1 > Len(s) THEN 0
  ELSE IF SubSeq(s, k, k + Len(sub) - 1) = sub THEN k
  ELSE FindFrom(s, sub, k + 1)

RECURSIVE KeptFrom(_, _, _, _, _)
\* corrected, from place at on, holds the unflagged stretches of text that
\* follow the flagged tokens errors[k..], in order, with some string in the
\* place of each flagged token; from is the offset in text where the stretch
\* before errors[k] begins
KeptFrom(corrected, at, text, errors, k) ==
  LET from == IF k = 1 THEN 0 ELSE errors[k - 1].position + Len(errors[k - 1].word)
      upto == IF k > Len(errors) THEN Len(text) ELSE errors[k].position
      stretch == SubSeq(text, from + 1, upto)
      found == IF k = 1 THEN (IF FindFrom(corrected, stretch, 1) = 1 THEN 1 ELSE 0)
               ELSE FindFrom(corrected, stretch, at)
  IN IF k > Len(errors)
     THEN /\ Len(corrected) - Len(stretch) + 1 >= at
          /\ SubSeq(corrected, Len(corrected) - Len(stretch) + 1, Len(corrected)) = stretch
     ELSE /\ found > 0
          /\ KeptFrom(corrected, found + Len(stretch), text, errors, k + 1)

\* C28: correct_text changes the text only inside tokens that were detected
\* as errors: every stretch of the input outside the flagged tokens appears
\* unchanged, in its place, in corrected_text, also when a flagged word is a
\* substring of an unflagged token or equals text an earlier correction made.
C28_UnflaggedTextUntouched ==
  Returned =>
    KeptFrom(call.result[1].corrected_text, 1, call.text, call.errors, 1)

\* a ConfigManager was just constructed; the file at its path is the one it read
JustConstructed == config_manager # None /\ config_manager[1].last.op = "load"

\* the file does not exist, cannot be read or parsed (by the parser its path
\* selects), or is empty
NothingToLoad(path, content) ==
  \/ content.kind \in {"absent", "unreadable", "malformed", "empty"}
  \/ content.kind = "mapping" /\ EndsWithJson(path) /\ content.syntax # "json"

\* a section of the file holds a field its config class does not have
UnknownSectionField(content) ==
  \E s \in DOMAIN content.sections \cap DOMAIN SectionDefaults :
     ~(DOMAIN content.sections[s] \subseteq DOMAIN SectionDefaults[s])

\* the file holds a top-level key that is no field of AppConfig
UnknownTopLevelKey(content) ==
  ~((DOMAIN content.sections \cup DOMAIN content.scalars)
      \subseteq (DOMAIN SectionDefaults \cup DOMAIN AppConfigDefaults))

\* C29 (as stated): constructing a ConfigManager never fails because of the
\* file, and when the file does not exist, cannot be read or parsed, is empty
\* or holds fields unknown to the config classes (AppConfig included), the
\* manager holds the complete default configuration.
C29_AnyUnknownFieldGivesDefaults ==
  JustConstructed =>
    LET manager == config_manager[1]
        content == config_file[manager.config_path]
    IN /\ ~manager.raised
       /\ (\/ NothingToLoad(manager.config_path, content)
           \/ UnknownSectionField(content)
           \/ UnknownTopLevelKey(content))
            => manager.config = create_default_config

\* C29 (amended): constructing a ConfigManager never fails because of the
\* file, and when the file does not exist, cannot be read or parsed, is empty
\* or holds, in one of its sections, a field unknown to that section's config
\* class, the manager holds the complete default configuration.
C29_ConstructionFallsBackToDefaults ==
  JustConstructed =>
    LET manager == config_manager[1]
        content == config_file[manager.config_path]
    IN /\ ~manager.raised
       /\ (NothingToLoad(manager.config_path, content) \/ UnknownSectionField(content))
            => manager.config = create_default_config

C29_Witness ==
  /\ JustConstructed
  /\ config_manager[1].config_path = "config.json"
  /\ config_file["config.json"].kind = "mapping"
  /\ UnknownSectionField(config_file["config.json"])
  /\ config_file["config.json"].sections["ui"]["theme"] = "\"dark\""
  /\ config_manager[1].config.sections["ui"]["theme"] = StrValue("light")

\* the manager has just saved its configuration to its path
JustSaved == config_manager # None /\ config_manager[1].last.op = "save"

\* the step is an update call that changed the manager
UpdateStep ==
  IF config_manager = None \/ config_manager' = None THEN FALSE
  ELSE config_manager'[1].last.op = "update" /\ config_manager' # config_manager

====
